---- MODULE Spec2Model ----
(***************************************************************************)
(* A state-machine model of src/src/device.rs: the Device facade over a    *)
(* reference-counted Handle (Arc<Handle>), its constructors, the control   *)
(* discovery loop of query_controls, control get/set, wait, the byte       *)
(* stream passthrough and the release of the descriptor in Handle::drop.   *)
(*                                                                         *)
(* The kernel side (open, ioctl, poll, read, write, close) is the          *)
(* environment: it answers each request nondeterministically within what   *)
(* the V4L2 interface allows.  Machine words are scaled down to WordBits   *)
(* bits (usize to twice that), since TLC's integers are 32 bits wide; the  *)
(* casts of the source keep their wrap-around at the scaled width.         *)
(***************************************************************************)
EXTENDS Integers, Sequences, FiniteSets, TLC

\* ------------------------------------------------------------------ bounds
\* The most Arc<Handle> clones handed out by Device::handle() and alive at once.
MaxHandles == 2
\* The most controls a driver of SpecQC reports.
MaxControls == 2
\* Width of the scaled c_int / i32 / u32 word.
WordBits == 8
\* The longest buffer handed to read or write.
MaxBuf == 2
MaxReleases == 2

\* ------------------------------------------------------------- machine words
RECURSIVE Pow2(_)
Pow2(n) == IF n = 0 THEN 1 ELSE 2 * Pow2(n - 1)

Word == Pow2(WordBits)
USize == Pow2(2 * WordBits)

\* `x as u32`: reduction modulo the word.
AsU32(x) == x % Word
\* `x as usize` of an i32: sign extension to the wider unsigned word.
AsUsize(x) == x % USize
\* `x as i32` of a usize: truncation to the word, read as two's complement.
AsI32(x) == LET m == x % Word IN IF m >= Pow2(WordBits - 1) THEN m - Word ELSE m

\* `x |= flag` for a one-bit flag.
BitOr(x, flag) == IF (x \div flag) % 2 = 1 THEN x ELSE x + flag
\* `x & flag != 0` for a one-bit flag.
BitTest(x, flag) == (x \div flag) % 2 = 1

\* The two top bits of the id word, as in the V4L2 headers.
V4L2_CTRL_FLAG_NEXT_CTRL == Pow2(WordBits - 1)
V4L2_CTRL_FLAG_NEXT_COMPOUND == Pow2(WordBits - 2)

\* ------------------------------------------------------------------- state
VARIABLES
    device,      \* the Device value: "none", "open" or "dropped"
    fd,          \* Handle.fd, the descriptor the Handle owns (-1: sentinel)
    strong,      \* the strong count of the Arc<Handle>
    held,        \* clones returned by Device::handle() and not yet dropped
    releasing,   \* per kind of owner: drops that took the count to zero and
                 \* have Handle::drop still to run
    kernel,      \* the kernel's side of the descriptor
    panicked,    \* a panic was raised (unwrap of a failed close)
    catalogue,   \* the controls the driver exposes, in cursor order
    ctrlValue,   \* the driver's live value of each control
    ready,       \* event flags pending on the descriptor
    pc,          \* where the thread that uses the Device stands
    call,        \* the current (or last) public call: its requests and result
    v4l2_ctrl,   \* query_controls: the v4l2_queryctrl record
    controls,    \* query_controls: the Vec of descriptions collected
    control,     \* query_controls: the description being built
    items,       \* query_controls: the menu items collected for `control`
    v4l2_menu,   \* query_controls: the v4l2_querymenu record
    iter,        \* query_controls: the StepBy iterator over the candidates
    timeout      \* wait: the timeout handed to poll

vars == << device, fd, strong, held, releasing, kernel, panicked, catalogue,
           ctrlValue, ready, pc, call, v4l2_ctrl, controls, control, items,
           v4l2_menu, iter, timeout >>

lifeVars == << device, fd, strong, held, releasing, kernel, panicked >>
qcVars == << v4l2_ctrl, controls, control, items, v4l2_menu, iter >>
driverVars == << catalogue, ctrlValue, ready >>

\* ------------------------------------------------------------- data shapes
\* Option<T>
None == [some |-> FALSE, val |-> << >>]
Some(v) == [some |-> TRUE, val |-> v]

\* io::Result / Result<(), WaitError> of a public call, and a panic.
Pending == [kind |-> "Pending", err |-> "", val |-> << >>]
Ok(v) == [kind |-> "Ok", err |-> "", val |-> v]
Err(e) == [kind |-> "Err", err |-> e, val |-> << >>]
ErrWith(e, v) == [kind |-> "Err", err |-> e, val |-> v]
Panic == [kind |-> "Panic", err |-> "", val |-> << >>]

\* One request handed to the kernel on the descriptor read from the Handle:
\* `live` records whether that descriptor was open in the kernel at that
\* moment, `ans` and `ret` what the kernel answered (and `revents` the event
\* flags poll wrote back).
Request(code, id, arg) ==
    [code |-> code, fd |-> fd, id |-> id, arg |-> arg,
     live |-> kernel.open /\ kernel.fd = fd /\ fd >= 0,
     ans |-> "Pending", ret |-> 0, revents |-> 0]
Answered(req, a, r) == [req EXCEPT !.ans = a, !.ret = r]

NewCall(op, args) == [op |-> op, args |-> args, reqs |-> << >>, result |-> Pending]
Issue(c, req) == [c EXCEPT !.reqs = Append(@, req)]
Return(c, res) == [c EXCEPT !.result = res]

\* (mutant of IsMenuKind: IntegerMenu is forgotten)
IsMenuKind_OnlyMenu(typ) == typ = "Menu"

\* control::Type, as far as device.rs tells the kinds apart.
IsMenuKind(typ) == typ = "Menu" \/ typ = "IntegerMenu"

\* mem::zeroed() of v4l2_queryctrl and v4l2_querymenu.
ZeroedQueryCtrl == [id |-> 0, typ |-> "Zero", minimum |-> 0, maximum |-> 0, step |-> 0]
ZeroedQueryMenu == [id |-> 0, index |-> 0]

\* control::Description::from(v4l2_queryctrl): the plain fields, no items yet.
DescriptionFrom(q) ==
    [id |-> q.id, typ |-> q.typ, minimum |-> q.minimum, maximum |-> q.maximum,
     step |-> q.step, items |-> None]

\* control::MenuItem::try_from((typ, v4l2_querymenu)): a label for a Menu, a
\* number for an IntegerMenu, an error for any other type.
MenuItemTryFrom(typ, m) ==
    IF typ = "Menu" THEN Ok([kind |-> "Name", of |-> m.index])
    ELSE IF typ = "IntegerMenu" THEN Ok([kind |-> "Value", of |-> m.index])
    ELSE Err("NotAMenu")

\* (minimum..=maximum).step_by(n): the iterator right after construction, which
\* asserts n != 0.  `more` tells whether `next` is still to be yielded.
StepBy(minimum, maximum, n) == [next |-> minimum, more |-> minimum <= maximum, last |-> maximum, step |-> n]
\* (mutant of StepByAdvance: the range is taken as exclusive of its end)
StepByAdvance_Exclusive(it) ==
    IF it.next + it.step < it.last
    THEN [it EXCEPT !.next = it.next + it.step]
    ELSE [it EXCEPT !.more = FALSE]

\* The iterator after it yielded `next`: forward by `step`, checked against the
\* end of the range (and so against the i32 range).
StepByAdvance(it) ==
    IF it.next + it.step <= it.last
    THEN [it EXCEPT !.next = it.next + it.step]
    ELSE [it EXCEPT !.more = FALSE]
NoIter == [next |-> 0, more |-> FALSE, last |-> 0, step |-> 1]

\* ------------------------------------------------------------------ driver
\* The controls a driver may expose: (type, minimum, maximum, step).
Shape(t, lo, hi, s) == [typ |-> t, minimum |-> lo, maximum |-> hi, step |-> s]
MenuRanges ==
    { <<0, 1, 1>>,      \* two items, step one
      <<0, 3, 2>>,      \* a step that does not divide the range
      <<1, 0, 2>>,      \* maximum below minimum
      <<0, 1, 0>>,      \* a step of zero
      <<0 - 1, 0, 1>>,  \* a negative minimum
      <<0, 1, 0 - 1>> } \* a negative step
Shapes ==
    { Shape("Integer", 0, 3, 1), Shape("Integer", 0, 0, 0),
      Shape("IntegerMenu", 0, 1, 1) }
    \cup { Shape("Menu", r[1], r[2], r[3]) : r \in MenuRanges }

RECURSIVE SeqsUpTo(_, _)
SeqsUpTo(S, n) ==
    IF n = 0 THEN { << >> }
    ELSE LET shorter == SeqsUpTo(S, n - 1)
         IN shorter \cup { Append(q, x) : q \in { p \in shorter : Len(p) = n - 1 }, x \in S }

\* The control ids of a catalogue are its positions, 1 .. Len.
\* VIDIOC_QUERYCTRL: with a NEXT flag on the id, the first control whose id is
\* above the id given; without, the control of exactly that id; EINVAL if none.
IdOf(reqId) == reqId % V4L2_CTRL_FLAG_NEXT_COMPOUND
DriverQueryCtrl(cat, reqId) ==
    LET wantNext == BitTest(reqId, V4L2_CTRL_FLAG_NEXT_CTRL)
                    \/ BitTest(reqId, V4L2_CTRL_FLAG_NEXT_COMPOUND)
        k == IF wantNext THEN IdOf(reqId) + 1 ELSE IdOf(reqId)
    IN IF k \in 1..Len(cat)
       THEN Ok([id |-> k, typ |-> cat[k].typ, minimum |-> cat[k].minimum,
                maximum |-> cat[k].maximum, step |-> cat[k].step])
       ELSE Err("InvalidInput")

\* io::ErrorKind of a failed ioctl: EINVAL, or any other errno.
IoctlErrors == {"InvalidInput", "Other"}
\* What v4l2::ioctl may answer, and the io::Result it makes of value v.
IoctlAnswers == {"Ok"} \cup IoctlErrors
Answer(a, v) == IF a = "Ok" THEN Ok(v) ELSE Err(a)

\* VIDIOC_QUERYMENU: what the driver may answer for menu `index` of control
\* `id`.  It may fail for any index; it succeeds only for an index within the
\* minimum and maximum it reported (an index out of range is EINVAL).
DriverQueryMenu(cat, id, index) ==
    IF id \in 1..Len(cat) /\ cat[id].minimum <= index /\ index <= cat[id].maximum
    THEN IoctlAnswers
    ELSE IoctlErrors

CtrlIds == {1, 2}
CtrlVals == {0, 5}

\* ------------------------------------------------------------- Arc<Handle>
\* (mutant of IsLast: the count is compared off by one)
IsLast_OffByOne(count) == count <= 2

\* Arc::drop: the owner whose decrement finds a count of one is the last one
\* and runs Handle::drop.
IsLast(count) == count = 1

\* Who may own a strong reference: the Device, a holder of a handle obtained
\* from Device::handle(), or the temporary `self.handle()` of one statement.
Owners == {"device", "holder", "temp"}

\* Owner `who` drops one strong reference of the Arc, which counted `count`.
ArcDrop(count, who) ==
    /\ strong' = count - 1
    /\ releasing' = IF IsLast(count) THEN [releasing EXCEPT ![who] = @ + 1]
                    ELSE releasing

\* (mutant of TempHandle: no clone is made, the Device's own reference is dropped)
TempHandle_NoClone == ArcDrop(strong, "temp")

\* `self.handle()` as a temporary: a clone for one statement, dropped after it.
TempHandle == ArcDrop(strong + 1, "temp")

\* what an operation of the Device leaves alone besides the Arc's count
ownerFrame == << device, fd, held, kernel, panicked >>

\* ------------------------------------------------------------ construction
O_RDWR == "O_RDWR"
O_NONBLOCK == "O_NONBLOCK"
OpenFlags == {"Nonblocking", "Blocking"}

\* Descriptors the kernel may hand out, and what v4l2::open may answer: an
\* error, the sentinel -1 without an error, or a descriptor.
Fds == {0, 3}
OpenResults ==
    { [ok |-> FALSE, fd |-> 0 - 1], [ok |-> TRUE, fd |-> 0 - 1] }
    \cup { [ok |-> TRUE, fd |-> f] : f \in Fds }

\* (mutant of IsSentinel: the result of open is not tested)
IsSentinel_Never(opened) == FALSE

\* `if fd == -1` of the constructors.
IsSentinel(opened) == opened = 0 - 1

\* The common body of the three constructors: open, test for -1, wrap. The
\* call records the flags and what v4l2::open answered.
Open(op, flags, r) ==
    /\ device = "none"
    /\ pc = "idle"
    /\ kernel.fd = 0 - 1
    /\ IF ~r.ok
       THEN /\ call' = Return(NewCall(op, << flags, r >>), Err("open"))
            /\ UNCHANGED << device, fd, strong, kernel >>
       ELSE IF IsSentinel(r.fd)
       THEN /\ call' = Return(NewCall(op, << flags, r >>), Err("last_os_error"))
            /\ UNCHANGED << device, fd, strong, kernel >>
       ELSE /\ call' = Return(NewCall(op, << flags, r >>), Ok(r.fd))
            /\ device' = "open"
            /\ fd' = r.fd
            /\ strong' = 1
            /\ kernel' = [fd |-> r.fd, open |-> TRUE, closeCalls |-> 0,
                           closedBy |-> "nobody", closeFailed |-> FALSE]
    /\ UNCHANGED << held, releasing, panicked, driverVars, pc, qcVars, timeout >>

Device_new == \E r \in OpenResults : Open("new", {O_RDWR}, r)

Device_with_path == \E r \in OpenResults : Open("with_path", {O_RDWR}, r)

Device_with_path_and_flags ==
    \E open_flags \in OpenFlags, r \in OpenResults :
        Open("with_path_and_flags",
             {O_RDWR} \cup (IF open_flags = "Nonblocking" THEN {O_NONBLOCK} ELSE {}),
             r)

\* ---------------------------------------------------------------- ownership
\* Device::handle(): one more strong reference, given to the caller.
Device_handle ==
    /\ device = "open"
    /\ held < MaxHandles
    /\ held' = held + 1
    /\ strong' = strong + 1
    /\ UNCHANGED << device, fd, releasing, kernel, panicked, driverVars, pc, call,
                    qcVars, timeout >>

\* A holder of a handle obtained from Device::handle() drops it.
Holder_drop ==
    /\ held > 0
    /\ held' = held - 1
    /\ ArcDrop(strong, "holder")
    /\ UNCHANGED << device, fd, kernel, panicked, driverVars, pc, call, qcVars,
                    timeout >>

\* The Device value goes out of scope (no call on it is in progress).
Device_drop ==
    /\ device = "open"
    /\ pc = "idle"
    /\ device' = "dropped"
    /\ ArcDrop(strong, "device")
    /\ UNCHANGED << fd, held, kernel, panicked, driverVars, pc, call, qcVars,
                    timeout >>

\* (mutant of HandleDrop: a failed close is ignored, `let _ = close(fd)`)
HandleDrop_Swallow(who) ==
    IF fd >= 0
    THEN \E closed \in BOOLEAN :
             /\ kernel' = [kernel EXCEPT !.open = FALSE,
                                         !.closeCalls = @ + 1,
                                         !.closedBy = who,
                                         !.closeFailed = @ \/ ~closed]
             /\ fd' = 0 - 1
             /\ UNCHANGED panicked
    ELSE UNCHANGED << fd, kernel, panicked >>

\* The body of Handle::drop: close a valid descriptor, panic if close fails
\* (the unwrap), else store the sentinel.
HandleDrop(who) ==
    IF fd >= 0
    THEN \E closed \in BOOLEAN :
             /\ kernel' = [kernel EXCEPT !.open = FALSE,
                                         !.closeCalls = @ + 1,
                                         !.closedBy = who,
                                         !.closeFailed = @ \/ ~closed]
             /\ IF closed
                THEN fd' = 0 - 1 /\ UNCHANGED panicked
                ELSE panicked' = TRUE /\ UNCHANGED fd
    ELSE UNCHANGED << fd, kernel, panicked >>

\* impl Drop for Handle, run by an owner whose drop took the count to zero.
Handle_drop ==
    \E who \in Owners :
    /\ releasing[who] > 0
    /\ releasing' = [releasing EXCEPT ![who] = @ - 1]
    /\ HandleDrop(who)
    /\ UNCHANGED << device, strong, held, driverVars, pc, call, qcVars, timeout >>

\* Handle::drop run once more on a Handle it has already run on (a second
\* ptr::drop_in_place or ManuallyDrop::drop; no safe code does it), while the
\* kernel has seen fewer than MaxReleases close calls.
Handle_drop_again ==
    /\ device = "dropped"
    /\ strong = 0
    /\ \A o \in Owners : releasing[o] = 0
    /\ kernel.closeCalls >= 1
    /\ kernel.closeCalls < MaxReleases
    /\ HandleDrop(kernel.closedBy)
    /\ UNCHANGED << device, strong, held, releasing, driverVars, pc, call, qcVars,
                    timeout >>

\* ------------------------------------------------------- capability query
Device_query_caps ==
    /\ device = "open"
    /\ pc = "idle"
    /\ \E a \in IoctlAnswers :
           call' = Return(Issue(NewCall("query_caps", << >>),
                                Answered(Request("VIDIOC_QUERYCAP", 0, 0), a, 0)),
                          Answer(a, "Capabilities"))
    /\ TempHandle
    /\ UNCHANGED << ownerFrame, driverVars, pc, qcVars, timeout >>

\* ------------------------------------------------------- control discovery
\* query_controls up to its loop: an empty Vec and a zeroed v4l2_queryctrl.
Device_query_controls ==
    /\ device = "open"
    /\ pc = "idle"
    /\ pc' = "qc_next"
    /\ call' = NewCall("query_controls", << >>)
    /\ controls' = << >>
    /\ v4l2_ctrl' = ZeroedQueryCtrl
    /\ UNCHANGED << lifeVars, driverVars, control, items, v4l2_menu, iter, timeout >>

\* The id the next VIDIOC_QUERYCTRL carries: both NEXT flags or-ed onto v4l2_ctrl.id.
\* (mutant of NextCtrlId: the NEXT_COMPOUND flag is not set)
NextCtrlId_OnlyNextCtrl(q) == BitOr(q.id, V4L2_CTRL_FLAG_NEXT_CTRL)

NextCtrlId(q) ==
    BitOr(BitOr(q.id, V4L2_CTRL_FLAG_NEXT_CTRL), V4L2_CTRL_FLAG_NEXT_COMPOUND)

\* (mutant of LoopEnds: the test for an empty Vec is missing)
LoopEnds_NoEmptyCheck(collected, e) ==
    IF e # "InvalidInput" THEN Err(e) ELSE Ok(collected)

\* (mutant of LoopEnds: any error after the first control ends the loop)
LoopEnds_AnyError(collected, e) ==
    IF collected = << >> THEN Err(e) ELSE Ok(collected)

\* The Err arm of the loop: fail on an empty Vec or on any error but
\* InvalidInput, else leave the loop and return the Vec.
LoopEnds(collected, e) ==
    IF collected = << >> \/ e # "InvalidInput" THEN Err(e) ELSE Ok(collected)

\* Return from query_controls with call record c: the locals are gone.
QcReturn(c, res) ==
    /\ pc' = "idle"
    /\ call' = Return(c, res)
    /\ controls' = << >>
    /\ v4l2_ctrl' = ZeroedQueryCtrl
    /\ control' = DescriptionFrom(ZeroedQueryCtrl)
    /\ items' = << >>
    /\ v4l2_menu' = ZeroedQueryMenu
    /\ iter' = NoIter

\* One iteration of the outer loop, up to the menu enumeration: the request,
\* then either the Err arm, or the description and (for a menu kind) the
\* construction of the candidate iterator, which panics on a step of zero.
query_controls_next ==
    /\ pc = "qc_next"
    /\ LET req == Request("VIDIOC_QUERYCTRL", NextCtrlId(v4l2_ctrl), 0) IN
       \E fault \in BOOLEAN :
         LET reply == IF fault THEN Err("Other")
                      ELSE DriverQueryCtrl(catalogue, req.id)
             answer == [reply EXCEPT !.kind = IF reply.kind = "Ok" THEN "Ok" ELSE reply.err]
             issued == Issue(call, Answered(req, answer.kind, 0))
         IN IF reply.kind = "Err"
            THEN QcReturn(issued, LoopEnds(controls, reply.err))
            ELSE LET d == DescriptionFrom(reply.val) IN
                 IF IsMenuKind(d.typ)
                 THEN IF AsUsize(reply.val.step) = 0
                      THEN QcReturn(issued, Panic)
                      ELSE /\ call' = issued
                           /\ v4l2_ctrl' = reply.val
                           /\ control' = d
                           /\ items' = << >>
                           /\ v4l2_menu' = [ZeroedQueryMenu EXCEPT !.id = reply.val.id]
                           /\ iter' = StepBy(reply.val.minimum, reply.val.maximum,
                                             AsUsize(reply.val.step))
                           /\ pc' = "qc_menu"
                           /\ UNCHANGED controls
                 ELSE /\ call' = issued
                      /\ v4l2_ctrl' = reply.val
                      /\ controls' = Append(controls, d)
                      /\ UNCHANGED << pc, control, items, v4l2_menu, iter >>
    /\ TempHandle
    /\ UNCHANGED << ownerFrame, driverVars, timeout >>

\* (mutant of ItemsAfter: the `continue` is missing, a failed index is kept)
ItemsAfter_NoContinue(res_ok, its, entry) == Append(its, entry)

\* `if res.is_err() { continue; }`, else `items.push(entry)`.
ItemsAfter(res_ok, its, entry) == IF res_ok THEN Append(its, entry) ELSE its

\* One iteration of the for loop over the candidates: VIDIOC_QUERYMENU for
\* index `i as u32`; a failure skips the index, a success appends the item.
query_controls_menu ==
    /\ pc = "qc_menu"
    /\ iter.more
    /\ LET m == [v4l2_menu EXCEPT !.index = AsU32(iter.next)]
           req == Request("VIDIOC_QUERYMENU", m.id, m.index)
       IN \E a \in DriverQueryMenu(catalogue, m.id, m.index) :
            LET res_ok == a = "Ok"
                item == MenuItemTryFrom(control.typ, m)
                issued == Issue(call, Answered(req, a, 0))
            IN
            IF res_ok /\ item.kind = "Err"
            THEN QcReturn(issued, Panic)
            ELSE /\ call' = issued
                 /\ v4l2_menu' = m
                 /\ iter' = StepByAdvance(iter)
                 /\ items' = ItemsAfter(res_ok, items, << m.index, item.val >>)
                 /\ UNCHANGED << pc, controls, v4l2_ctrl, control >>
    /\ TempHandle
    /\ UNCHANGED << ownerFrame, driverVars, timeout >>

\* After the last candidate: control.items = Some(items); controls.push(control).
query_controls_push ==
    /\ pc = "qc_menu"
    /\ ~iter.more
    /\ controls' = Append(controls, [control EXCEPT !.items = Some(items)])
    /\ pc' = "qc_next"
    /\ items' = << >>
    /\ UNCHANGED << lifeVars, driverVars, call, v4l2_ctrl, control, v4l2_menu, iter,
                    timeout >>

\* ---------------------------------------------------------- control access
\* control::Control: the scalar variant and the others.
ControlVariants == {"Value", "Value64", "String"}
Controls == [variant : ControlVariants, v : CtrlVals]

\* Device::control(id): one VIDIOC_G_CTRL, the value wrapped as Control::Value.
Device_control ==
    /\ device = "open"
    /\ pc = "idle"
    /\ \E id \in CtrlIds :
         \E a \in IoctlAnswers :
           call' = Return(Issue(NewCall("control", << id >>),
                                Answered(Request("VIDIOC_G_CTRL", id, 0), a,
                                         ctrlValue[id])),
                          Answer(a, [variant |-> "Value", v |-> ctrlValue[id]]))
    /\ TempHandle
    /\ UNCHANGED << ownerFrame, driverVars, pc, qcVars, timeout >>

\* (mutant of IsValue: every variant is written)
IsValue_Any(val) == TRUE

\* The match of set_control: only Control::Value(val) carries a value to write.
IsValue(val) == val.variant = "Value"

\* Device::set_control(id, val): reject any variant but Value before any
\* request; else one VIDIOC_S_CTRL carrying id and value.
Device_set_control ==
    /\ device = "open"
    /\ pc = "idle"
    /\ \E id \in CtrlIds, val \in Controls :
         IF ~IsValue(val)
         THEN /\ call' = Return(NewCall("set_control", << id, val >>),
                                Err("InvalidInput"))
              /\ UNCHANGED << ctrlValue, strong, releasing >>
         ELSE /\ \E a \in IoctlAnswers :
                   LET r == Answer(a, << >>)
                           req == Answered(Request("VIDIOC_S_CTRL", id, val.v), a, 0) IN
                   /\ call' = Return(Issue(NewCall("set_control", << id, val >>),
                                           req), r)
                   /\ ctrlValue' = IF r.kind = "Ok"
                                   THEN [ctrlValue EXCEPT ![req.id] = req.arg]
                                   ELSE ctrlValue
              /\ TempHandle
    /\ UNCHANGED << ownerFrame, catalogue, ready, pc, qcVars, timeout >>

\* ------------------------------------------------------------------- wait
POLLIN == 1
POLLPRI == 2
POLLERR == Pow2(3)
POLLHUP == Pow2(4)
PollFlags == {POLLIN, POLLPRI, POLLERR, POLLHUP}

\* The event flags the descriptor may have pending.
ReadyStates == {0, POLLIN, POLLPRI, POLLERR, POLLIN + POLLERR}

\* What a caller may pass as Option<usize>.
TimeoutArgs == {None, Some(0), Some(1), Some(Word - 1), Some(Word)}

\* The match on the timeout: `t as i32`, or -1 to wait forever.
\* (mutant of PollTimeout: None polls without waiting)
PollTimeout_NoneIsZero(t) == IF t.some THEN AsI32(t.val) ELSE 0

PollTimeout(t) == IF t.some THEN AsI32(t.val) ELSE 0 - 1

\* poll's revents for requested `events`: the pending flags that were asked
\* for, and POLLERR / POLLHUP whether asked for or not.
Revents(pending, events) ==
    LET seen == { f \in PollFlags : BitTest(pending, f)
                                    /\ (BitTest(events, f) \/ f \in {POLLERR, POLLHUP}) }
        sum[S \in SUBSET PollFlags] ==
            IF S = {} THEN 0 ELSE LET f == CHOOSE x \in S : TRUE IN f + sum[S \ {f}]
    IN sum[seen]

\* Device::wait up to the poll call: the pollfd (built with the temporary
\* `self.handle()`) and the converted timeout.
Device_wait ==
    /\ device = "open"
    /\ pc = "idle"
    /\ \E t \in TimeoutArgs :
         /\ timeout' = PollTimeout(t)
         /\ call' = Issue(NewCall("wait", << t >>),
                          Request("poll", POLLIN + POLLPRI, PollTimeout(t)))
    /\ pc' = "poll"
    /\ TempHandle
    /\ UNCHANGED << ownerFrame, driverVars, qcVars >>

\* errno after a failed poll.
PollErrnos == {"EINTR", "ENOMEM"}

\* (mutant of WaitResult: POLLPRI counts as ready too)
WaitResult_PriIsReady(number_of_events, revents, errno) ==
    IF number_of_events = 0 - 1 THEN ErrWith("PollError", errno)
    ELSE IF number_of_events = 0 THEN Err("Timeout")
    ELSE IF BitTest(revents, POLLIN) \/ BitTest(revents, POLLPRI) THEN Ok(<< >>)
    ELSE ErrWith("DeviceError", revents)

\* The classification of poll's return value and revents.
WaitResult(number_of_events, revents, errno) ==
    IF number_of_events = 0 - 1 THEN ErrWith("PollError", errno)
    ELSE IF number_of_events = 0 THEN Err("Timeout")
    ELSE IF BitTest(revents, POLLIN) THEN Ok(<< >>)
    ELSE ErrWith("DeviceError", revents)

\* poll returns n: -1 with errno e, or 1 with the events seen, or (given a
\* timeout that is not negative) 0 with nothing seen; with a negative timeout
\* and nothing pending it returns only by failing.
PollReturn(n, e) ==
    /\ pc = "poll"
    /\ LET revents == Revents(ready, POLLIN + POLLPRI)
           seen == IF n = 1 THEN revents ELSE 0
       IN /\ n = 1 => revents # 0
          /\ n = 0 => revents = 0 /\ timeout >= 0
          /\ call' = Return([call EXCEPT !.reqs[1] =
                                [Answered(@, IF n = 0 - 1 THEN e ELSE "Ok", n)
                                   EXCEPT !.revents = seen]],
                            WaitResult(n, seen, e))
    /\ pc' = "idle"
    /\ timeout' = 0
    /\ UNCHANGED << lifeVars, driverVars, qcVars >>

\* libc::poll fails.
poll_fails == \E e \in PollErrnos : PollReturn(0 - 1, e)

\* libc::poll returns because of an event or of the elapsed timeout.
poll_wakes == \E n \in {0, 1} : PollReturn(n, "")

\* Device::wait from the return of libc::poll.
poll_return == poll_fails \/ poll_wakes

\* The device raises or clears events on the open descriptor.
DeviceEvent ==
    /\ kernel.open
    /\ \E r \in ReadyStates : ready' = r /\ r # ready
    /\ UNCHANGED << lifeVars, catalogue, ctrlValue, pc, call, qcVars, timeout >>

\* ------------------------------------------------------------ byte stream
\* The match on the return of libc::read / libc::write.
\* (mutant of TransferResult: a transfer of nothing is an error too)
TransferResult_ZeroIsError(ret) ==
    IF ret <= 0 THEN Err("last_os_error") ELSE Ok(AsUsize(ret))

TransferResult(ret) == IF ret = 0 - 1 THEN Err("last_os_error") ELSE Ok(AsUsize(ret))

Transfer(op) ==
    /\ device = "open"
    /\ pc = "idle"
    /\ \E len \in 0..MaxBuf :
         \E ret \in {0 - 1} \cup 0..len :
           call' = Return(Issue(NewCall(op, << len >>),
                                Answered(Request(op, 0, len),
                                         IF ret = 0 - 1 THEN "Other" ELSE "Ok", ret)),
                          TransferResult(ret))
    /\ TempHandle
    /\ UNCHANGED << ownerFrame, driverVars, pc, qcVars, timeout >>

Device_read == Transfer("read")

Device_write == Transfer("write")

\* flush: nothing to do.
Device_flush ==
    /\ device = "open"
    /\ pc = "idle"
    /\ call' = Return(NewCall("flush", << >>), Ok(<< >>))
    /\ UNCHANGED << lifeVars, driverVars, pc, qcVars, timeout >>

\* (mutant of Device_close: it drops the Device's own reference, not a clone)
Device_close_OwnReference ==
    /\ device = "open"
    /\ pc = "idle"
    /\ call' = Return(NewCall("close", << >>), Ok(<< >>))
    /\ ArcDrop(strong, "temp")
    /\ UNCHANGED << ownerFrame, driverVars, pc, qcVars, timeout >>

\* Device::close: drop(self.handle()), a clone made and dropped at once.
Device_close ==
    /\ device = "open"
    /\ pc = "idle"
    /\ call' = Return(NewCall("close", << >>), Ok(<< >>))
    /\ TempHandle
    /\ UNCHANGED << ownerFrame, driverVars, pc, qcVars, timeout >>

\* ---------------------------------------------------------- specifications
NoCall == NewCall("none", << >>)

InitLocals ==
    /\ pc = "idle"
    /\ call = NoCall
    /\ v4l2_ctrl = ZeroedQueryCtrl
    /\ controls = << >>
    /\ control = DescriptionFrom(ZeroedQueryCtrl)
    /\ items = << >>
    /\ v4l2_menu = ZeroedQueryMenu
    /\ iter = NoIter
    /\ timeout = 0

\* The drivers of Spec: one without controls, one with a plain and a menu control.
LifeCatalogues == { << >>, << Shape("Integer", 0, 3, 1), Shape("Menu", 0, 1, 1) >> }

\* Before any Device is constructed.
Init ==
    /\ device = "none"
    /\ fd = 0 - 1
    /\ strong = 0
    /\ held = 0
    /\ releasing = [o \in Owners |-> 0]
    /\ kernel = [fd |-> 0 - 1, open |-> FALSE, closeCalls |-> 0,
                           closedBy |-> "nobody", closeFailed |-> FALSE]
    /\ panicked = FALSE
    /\ catalogue \in LifeCatalogues
    /\ ctrlValue = [id \in CtrlIds |-> 0]
    /\ ready = 0
    /\ InitLocals

Next ==
    \/ Device_new
    \/ Device_with_path
    \/ Device_with_path_and_flags
    \/ Device_handle
    \/ Holder_drop
    \/ Device_drop
    \/ Handle_drop
    \/ Device_query_caps
    \/ Device_query_controls
    \/ query_controls_next
    \/ query_controls_menu
    \/ query_controls_push
    \/ Device_control
    \/ Device_set_control
    \/ Device_wait
    \/ poll_return
    \/ DeviceEvent
    \/ Device_read
    \/ Device_write
    \/ Device_flush
    \/ Device_close

Spec == Init /\ [][Next]_vars

\* query_controls alone, on a Device just opened, against every driver of up
\* to MaxControls controls.
InitQC ==
    /\ device = "open"
    /\ fd = 3
    /\ strong = 1
    /\ held = 0
    /\ releasing = [o \in Owners |-> 0]
    /\ kernel = [fd |-> 3, open |-> TRUE, closeCalls |-> 0,
                           closedBy |-> "nobody", closeFailed |-> FALSE]
    /\ panicked = FALSE
    /\ catalogue \in SeqsUpTo(Shapes, MaxControls)
    /\ ctrlValue = [id \in CtrlIds |-> 0]
    /\ ready = 0
    /\ InitLocals

NextQC ==
    \/ Device_query_controls
    \/ query_controls_next
    \/ query_controls_menu
    \/ query_controls_push

SpecQC == InitQC /\ [][NextQC]_vars

\* The whole program, and Handle::drop run a second time on its Handle.
NextRelease ==
    \/ Next
    \/ Handle_drop_again

SpecRelease == Init /\ [][NextRelease]_vars

\* wait alone, on a Device just opened whose handle may be shared: a poll that
\* can return (an event is pending or the timeout can elapse) does return.
InitWait ==
    /\ device = "open"
    /\ fd = 3
    /\ strong = 1
    /\ held = 0
    /\ releasing = [o \in Owners |-> 0]
    /\ kernel = [fd |-> 3, open |-> TRUE, closeCalls |-> 0,
                           closedBy |-> "nobody", closeFailed |-> FALSE]
    /\ panicked = FALSE
    /\ catalogue = << >>
    /\ ctrlValue = [id \in CtrlIds |-> 0]
    /\ ready = 0
    /\ InitLocals

NextWait ==
    \/ Device_handle
    \/ Holder_drop
    \/ Device_wait
    \/ poll_return
    \/ DeviceEvent

SpecWait == InitWait /\ [][NextWait]_vars /\ WF_vars(poll_wakes)

\* ================================================================== claims
\* Some owner (the Device, or a holder of a handle) still holds a reference.
Owned == device = "open" \/ held > 0
\* Every owner is gone and every Handle::drop that was due has run.
AllDropped == device = "dropped" /\ held = 0 /\ \A o \in Owners : releasing[o] = 0

\* C1: whatever the number of owners and the order of their drops, close is
\* invoked at most once, only when no owner holds a reference any more (so by
\* the drop of the last owner, never by a temporary), and exactly once by the
\* time all owners are dropped.
C1_CloseOnceByLastOwner ==
    /\ kernel.closeCalls <= 1
    /\ kernel.closeCalls = 1 =>
          ~Owned /\ strong = 0 /\ kernel.closedBy \in {"device", "holder"}
    /\ AllDropped => kernel.closeCalls = 1

\* C1 witness: the Device was dropped first and a holder, as the last of
\* several owners, invoked close.
C1_Witness ==
    AllDropped /\ kernel.closeCalls = 1 /\ kernel.closedBy = "holder"

\* C2: while an owner holds a reference the descriptor is the open one, not
\* the sentinel, and close has not been invoked; and every request, poll or
\* transfer of a call went to a descriptor that was open when it was issued.
C2_OpenWhileOwned ==
    /\ Owned => /\ fd >= 0
                /\ kernel.open
                /\ kernel.fd = fd
                /\ kernel.closeCalls = 0
    /\ \A i \in 1..Len(call.reqs) : call.reqs[i].live

\* C2 witness: the Device is dropped, a holder remains, the descriptor is
\* still open, and the last call (a query_controls of several requests) ran
\* on the open descriptor.
C2_Witness ==
    /\ device = "dropped"
    /\ held = 1
    /\ kernel.open
    /\ call.op = "query_controls"
    /\ Len(call.reqs) >= 3
    /\ call.result.kind = "Ok"

\* C10: a set_control with a variant other than Value returns InvalidInput
\* and has issued no request; with Value it has issued exactly one
\* VIDIOC_S_CTRL with the id and the value given.  And a step that rejects a
\* variant leaves the driver's control values as they were.
C10_State ==
    call.op = "set_control" =>
        LET id == call.args[1]
            val == call.args[2]
        IN IF val.variant # "Value"
           THEN call.result = Err("InvalidInput") /\ call.reqs = << >>
           ELSE /\ Len(call.reqs) = 1
                /\ call.reqs[1].code = "VIDIOC_S_CTRL"
                /\ call.reqs[1].id = id
                /\ call.reqs[1].arg = val.v
                /\ call.result.kind \in {"Ok", "Err"}
C10_Step ==
    (call'.op = "set_control" /\ call'.args[2].variant # "Value")
        => ctrlValue' = ctrlValue
C10_SetControlScalarOnly == [](C10_State) /\ [][C10_Step]_vars

\* C10 witnesses: a rejected variant, and an accepted Value that changed the
\* driver's value of the control.
C10_Witness ==
    /\ call.op = "set_control"
    /\ call.args[2].variant = "String"
    /\ call.result = Err("InvalidInput")
    /\ call.reqs = << >>
    /\ ctrlValue[2] = 5

\* ------------------------------------------------- claims on query_controls
MenuTypeTags == {"Menu", "IntegerMenu"}
QcCall == call.op = "query_controls"
QcDone == QcCall /\ pc = "idle" /\ call.result.kind # "Pending"
CtrlReqs == SelectSeq(call.reqs, LAMBDA r : r.code = "VIDIOC_QUERYCTRL")
OkCtrlReqs == SelectSeq(CtrlReqs, LAMBDA r : r.ans = "Ok")
MenuReqs(id) ==
    SelectSeq(call.reqs, LAMBDA r : r.code = "VIDIOC_QUERYMENU" /\ r.id = id)
\* The descriptions pushed so far, or returned.
Collected ==
    IF ~QcCall THEN << >>
    ELSE IF pc # "idle" THEN controls
    ELSE IF call.result.kind = "Ok" THEN call.result.val
    ELSE << >>
CeilDiv(a, b) == 0 - ((0 - a) \div b)

\* C3 (as claimed): against a driver that reports its N >= 1 controls and then
\* EINVAL, and never another error, a finished query_controls has returned Ok
\* with exactly those N descriptions, in the driver's order.
C3_AllControlsReturned ==
    (QcDone /\ Len(catalogue) >= 1 /\ \A i \in 1..Len(call.reqs) : call.reqs[i].ans # "Other")
        => /\ call.result.kind = "Ok"
           /\ Len(call.result.val) = Len(catalogue)
           /\ \A k \in 1..Len(catalogue) :
                 /\ call.result.val[k].id = k
                 /\ call.result.val[k].typ = catalogue[k].typ

\* C3, for the drivers that report no menu control with a step of zero: the
\* statement of C3 holds.
C3_ApartFromStepZero ==
    (\A k \in 1..Len(catalogue) :
        ~(catalogue[k].typ \in MenuTypeTags /\ catalogue[k].step = 0))
        => C3_AllControlsReturned

\* C4: when the first VIDIOC_QUERYCTRL of a call fails with InvalidInput, the
\* call made no further request and returned that error, not an empty list.
C4_FirstInvalidInputFails ==
    (QcCall /\ Len(call.reqs) >= 1 /\ call.reqs[1].ans = "InvalidInput")
        => call.result = Err("InvalidInput") /\ Len(call.reqs) = 1

\* C4 witness: a driver without controls answered the first request with EINVAL.
C4_Witness ==
    /\ QcDone
    /\ catalogue = << >>
    /\ Len(call.reqs) = 1
    /\ call.reqs[1].ans = "InvalidInput"
    /\ call.result.kind = "Err"

\* C5: a VIDIOC_QUERYCTRL that fails with an error other than InvalidInput is
\* the last request of the call, and the call returns that error and no
\* control; and a call returns Ok only after a VIDIOC_QUERYCTRL failed with
\* InvalidInput when at least one control had been collected.
C5_OtherErrorsPropagate ==
    QcCall =>
      /\ \A i \in 1..Len(call.reqs) :
           (call.reqs[i].code = "VIDIOC_QUERYCTRL" /\ call.reqs[i].ans = "Other")
             => i = Len(call.reqs) /\ call.result = Err("Other")
      /\ call.result.kind = "Ok" =>
           /\ Len(CtrlReqs) >= 2
           /\ CtrlReqs[Len(CtrlReqs)].ans = "InvalidInput"
           /\ call.reqs[Len(call.reqs)].code = "VIDIOC_QUERYCTRL"
           /\ Len(call.result.val) = Len(CtrlReqs) - 1
           /\ Len(call.result.val) >= 1

\* C5 witness: the error came after a control had been collected.
C5_Witness ==
    /\ QcDone
    /\ Len(OkCtrlReqs) >= 1
    /\ call.reqs[Len(call.reqs)].ans = "Other"
    /\ call.result = Err("Other")

\* C6 (as claimed): a menu control with step s >= 1 has had
\* ceil((max - min) / s) + 1 menu requests.
C6_CeilCount ==
    \A k \in 1..Len(Collected) :
        LET d == Collected[k] IN
        (d.typ \in MenuTypeTags /\ d.step >= 1)
            => Len(MenuReqs(d.id)) = CeilDiv(d.maximum - d.minimum, d.step) + 1

\* C6 (amended): a menu control with step s >= 1 has had
\* floor((max - min) / s) + 1 menu requests when min <= max and none when
\* min > max: one per candidate min, min + s, .. not above max, in that order,
\* each with the candidate cast to u32 as its index.
C6_FloorCount ==
    \A k \in 1..Len(Collected) :
        LET d == Collected[k]
            n == IF d.minimum <= d.maximum
                 THEN ((d.maximum - d.minimum) \div d.step) + 1 ELSE 0
        IN (d.typ \in MenuTypeTags /\ d.step >= 1)
            => /\ Len(MenuReqs(d.id)) = n
               /\ \A j \in 1..n :
                     MenuReqs(d.id)[j].arg = (d.minimum + (j - 1) * d.step) % Word

\* C6 witness: the range 0..3 with step 2 was enumerated with two requests.
C6_Witness ==
    \E k \in 1..Len(Collected) :
        /\ Collected[k].typ = "Menu"
        /\ Collected[k].minimum = 0
        /\ Collected[k].maximum = 3
        /\ Collected[k].step = 2
        /\ Len(MenuReqs(Collected[k].id)) = 2

\* The menu requests of control `id` that the driver answered with success.
OkMenuReqs(id) == SelectSeq(MenuReqs(id), LAMBDA r : r.ans = "Ok")
LastReq == call.reqs[Len(call.reqs)]

\* C7: a failed VIDIOC_QUERYMENU leaves the call running (in the enumeration,
\* or past its end in the outer loop: it neither returns nor panics), it
\* counts as one of the candidates (see C6), and the items of a control are exactly the (index, item) pairs of the
\* requests that succeeded, in request order, the indices strictly ascending.
C7_FailedItemsSkipped ==
    /\ (QcCall /\ call.reqs # << >> /\ LastReq.code = "VIDIOC_QUERYMENU"
          /\ LastReq.ans # "Ok")
         => pc \in {"qc_menu", "qc_next"} /\ call.result.kind = "Pending"
    /\ \A k \in 1..Len(Collected) :
         LET d == Collected[k]
             ok == OkMenuReqs(d.id)
         IN d.typ \in MenuTypeTags =>
              /\ d.items.some
              /\ Len(d.items.val) = Len(ok)
              /\ \A j \in 1..Len(ok) :
                    /\ d.items.val[j][1] = ok[j].arg
                    /\ d.items.val[j][2].of = ok[j].arg
                    /\ d.items.val[j][2].kind =
                          (IF d.typ = "Menu" THEN "Name" ELSE "Value")
              /\ \A i, j \in 1..Len(d.items.val) :
                    i < j => d.items.val[i][1] < d.items.val[j][1]

\* C7 witness: in a returned control the first candidate failed and a later
\* one succeeded, so the items are fewer than the requests and not empty.
C7_Witness ==
    /\ QcDone
    /\ \E k \in 1..Len(Collected) :
         LET d == Collected[k] IN
         /\ d.typ \in MenuTypeTags
         /\ Len(MenuReqs(d.id)) = 2
         /\ MenuReqs(d.id)[1].ans = "Other"
         /\ MenuReqs(d.id)[2].ans = "Ok"
         /\ Len(d.items.val) = 1

\* C8 (as claimed): once the driver has reported a menu control with a step
\* of zero, the call goes on or returns a value (Ok or Err); it does not panic.
C8_StepZeroGuarded ==
    (QcCall /\ \E k \in 1..Len(OkCtrlReqs) :
                  catalogue[k].typ \in MenuTypeTags /\ catalogue[k].step = 0)
        => call.result.kind \in {"Pending", "Ok", "Err"}

\* C9: every description collected or returned has its items present exactly
\* when its type tag is Menu or IntegerMenu.
C9_ItemsIffMenuKind ==
    \A k \in 1..Len(Collected) :
        Collected[k].items.some <=> Collected[k].typ \in MenuTypeTags

\* C9 witness: a returned list with a plain control without items, an
\* IntegerMenu control with items, and a menu control whose items are present
\* but empty.
C9_Witness ==
    /\ QcDone
    /\ call.result.kind = "Ok"
    /\ \E i, j \in 1..Len(Collected) :
         /\ Collected[i].typ = "Integer" /\ ~Collected[i].items.some
         /\ Collected[j].typ = "IntegerMenu" /\ Collected[j].items.some
         /\ Collected[j].items.val = << >>

\* ---------------------------------------------------------- claims on wait
WaitDone == call.op = "wait" /\ pc = "idle" /\ call.result.kind # "Pending"

\* C11: a finished wait has exactly the outcome its poll result calls for:
\* -1 gives PollError with the errno; 0 gives Timeout; an event count above
\* zero gives ready when POLLIN is among the flags poll wrote back (whatever
\* else is set) and else DeviceError carrying exactly those flags.
C11_WaitClassification ==
    WaitDone =>
        LET n == call.reqs[1].ret
            seen == call.reqs[1].revents
        IN /\ Len(call.reqs) = 1
           /\ n = 0 - 1 => /\ call.result.kind = "Err"
                            /\ call.result.err = "PollError"
                            /\ call.result.val = call.reqs[1].ans
                            /\ call.result.val \in PollErrnos
           /\ n = 0 => call.result.kind = "Err" /\ call.result.err = "Timeout"
           /\ (n >= 1 /\ seen % 2 = 1) => call.result.kind = "Ok"
           /\ (n >= 1 /\ seen % 2 = 0)
                => call.result.kind = "Err" /\ call.result.err = "DeviceError"
                   /\ call.result.val = seen /\ seen # 0

\* C11 witnesses: only POLLPRI was seen and wait returned DeviceError with it.
C11_Witness ==
    /\ WaitDone
    /\ call.reqs[1].ret = 1
    /\ call.reqs[1].revents = 2
    /\ call.result.err = "DeviceError"
    /\ call.result.val = 2

WaitsForever == pc = "poll" /\ call.op = "wait" /\ ~call.args[1].some
WaitsZero ==
    pc = "poll" /\ call.op = "wait" /\ call.args[1].some /\ call.args[1].val = 0
PendingEvents == Revents(ready, POLLIN + POLLPRI)
Returns == pc = "poll" /\ pc' = "idle"
PollFailed == call'.reqs[1].ret = 0 - 1
IsReady(r) == r.kind = "Ok"
IsTimeout(r) == r.kind = "Err" /\ r.err = "Timeout"

\* C12: wait(None) returns while nothing is pending only when poll itself
\* fails (it never times out and never reports ready without an event), and
\* while POLLIN stays pending it eventually returns, with ready unless poll
\* failed; wait(Some(0)) can always return at once, does return, and with
\* nothing pending returns Timeout unless poll failed.
C12_BlockingAndTimeout ==
    /\ [][(WaitsForever /\ Returns /\ PendingEvents = 0)
            => (PollFailed /\ call'.result.kind = "Err"
                /\ call'.result.err = "PollError")]_vars
    /\ [][(WaitsForever /\ Returns /\ PendingEvents % 2 = 1 /\ ~PollFailed)
            => IsReady(call'.result)]_vars
    /\ (WaitsForever /\ PendingEvents % 2 = 1)
          ~> (pc = "idle" \/ PendingEvents % 2 = 0)
    /\ [](WaitsZero => ENABLED poll_wakes)
    /\ WaitsZero ~> pc = "idle"
    /\ [][(WaitsZero /\ Returns /\ PendingEvents = 0 /\ ~PollFailed)
            => IsTimeout(call'.result)]_vars

\* C12 witnesses: a wait(None) returned ready.
C12_Witness ==
    /\ WaitDone
    /\ ~call.args[1].some
    /\ call.reqs[1].arg = 0 - 1
    /\ IsReady(call.result)

\* ------------------------------------------------- claims on construction
Constructors == {"new", "with_path", "with_path_and_flags"}

\* C13: after a constructor whose open failed or answered -1 the call has
\* returned an error and there is no Device, no Handle, no owner and no close;
\* a constructor returns Ok only for a descriptor that is not negative, and
\* a Device never holds a negative descriptor.
C13_FailedOpenMakesNothing ==
    /\ call.op \in Constructors =>
          LET r == call.args[2]
          IN /\ (~r.ok \/ r.fd = 0 - 1) =>
                    /\ call.result.kind = "Err"
                    /\ device = "none"
                    /\ fd = 0 - 1
                    /\ strong = 0 /\ held = 0
                    /\ \A o \in Owners : releasing[o] = 0
                    /\ ~kernel.open /\ kernel.fd = 0 - 1
                    /\ kernel.closeCalls = 0
             /\ call.result.kind = "Ok" =>
                    /\ r.ok /\ r.fd >= 0
                    /\ call.result.val = r.fd
                    /\ kernel.fd = r.fd
    /\ device = "open" => fd >= 0 /\ kernel.fd = fd
    /\ device = "dropped" => kernel.fd >= 0

\* C13 witnesses: with_path_and_flags got -1 from an open that reported no
\* error, and returned the last OS error.
C13_Witness ==
    /\ call.op = "with_path_and_flags"
    /\ call.args[2].ok
    /\ call.args[2].fd = 0 - 1
    /\ call.result.kind = "Err"
    /\ call.result.err = "last_os_error"
    /\ device = "none"

\* ------------------------------------------------ claims on the byte stream
\* C14: a read or write has issued exactly one transfer request, of its own
\* kind and for the whole buffer; -1 from it gives an error and a count
\* k >= 0 gives Ok(k), short counts and zero included; flush has issued no
\* request and returned Ok.
C14_OneTransferPerCall ==
    /\ call.op \in {"read", "write"} =>
          /\ Len(call.reqs) = 1
          /\ call.reqs[1].code = call.op
          /\ call.reqs[1].arg = call.args[1]
          /\ call.reqs[1].ret = 0 - 1 =>
                call.result.kind = "Err" /\ call.result.err = "last_os_error"
          /\ call.reqs[1].ret >= 0 =>
                call.result.kind = "Ok" /\ call.result.val = call.reqs[1].ret
    /\ call.op = "flush" => call.reqs = << >> /\ call.result.kind = "Ok"

\* C14 witnesses: a write of two bytes transferred one, and that count was
\* returned after the single request.
C14_Witness ==
    /\ call.op = "write"
    /\ call.args[1] = 2
    /\ Len(call.reqs) = 1
    /\ call.reqs[1].ret = 1
    /\ call.result.kind = "Ok"
    /\ call.result.val = 1

\* ------------------------------------------------------ claims on release
\* C15: a second run of the release step on the same Handle finds the
\* sentinel, calls no close and leaves the sentinel in place.
C15_ReleaseIdempotent ==
    [][Handle_drop_again => (fd = 0 - 1 /\ fd' = 0 - 1 /\ kernel' = kernel)]_vars

\* What holds of C15: after a release whose close succeeded, a second run is
\* inert.
C15_InertAfterSuccessfulClose ==
    [][(Handle_drop_again /\ ~kernel.closeFailed)
          => (fd = 0 - 1 /\ fd' = 0 - 1 /\ kernel' = kernel)]_vars

\* C16: a close that failed has panicked the release (it is never passed
\* over), nothing panics without a failed close, and a release step that finds
\* the sentinel calls no close.
C16_CloseFailureFatal ==
    /\ [](kernel.closeFailed <=> panicked)
    /\ [][(kernel'.closeFailed /\ ~kernel.closeFailed) => (panicked' /\ fd' = fd)]_vars
    /\ [][((Handle_drop \/ Handle_drop_again) /\ fd = 0 - 1) => kernel' = kernel]_vars

\* C16 witness: the last owner's release met a failing close and panicked.
C16_Witness ==
    /\ device = "dropped" /\ held = 0 /\ strong = 0
    /\ kernel.closeCalls = 1
    /\ kernel.closeFailed
    /\ panicked

\* C16 witness of the other case: the release step ran on the sentinel.
C16_SentinelWitness ==
    /\ fd = 0 - 1
    /\ kernel.closeCalls = 1
    /\ ENABLED Handle_drop_again

\* --------------------------------------------- claims on the control cursor
BothFlags == V4L2_CTRL_FLAG_NEXT_CTRL + V4L2_CTRL_FLAG_NEXT_COMPOUND

\* C17: every VIDIOC_QUERYCTRL request of a query_controls call carries both
\* flag bits; the first asks for id 0 with both bits, and each later one
\* follows a successful request and asks for the id the driver wrote back to
\* that one, with both bits; the ids asked for only grow.
C17_CursorCarriedForward ==
    QcCall =>
      \A j \in 1..Len(CtrlReqs) :
        LET q == CtrlReqs[j].id IN
        /\ BitTest(q, V4L2_CTRL_FLAG_NEXT_CTRL)
        /\ BitTest(q, V4L2_CTRL_FLAG_NEXT_COMPOUND)
        /\ j = 1 => q = BothFlags
        /\ j > 1 =>
             LET prev == CtrlReqs[j - 1] IN
             /\ prev.ans = "Ok"
             /\ q = DriverQueryCtrl(catalogue, prev.id).val.id + BothFlags
             /\ j - 1 <= Len(Collected) => q = Collected[j - 1].id + BothFlags
             /\ q > prev.id

\* C17 witness: two controls were described and the third request, made with
\* the second control's id, ended the enumeration.
C17_Witness ==
    /\ QcDone
    /\ call.result.kind = "Ok"
    /\ Len(CtrlReqs) = 3
    /\ CtrlReqs[3].id = 2 + BothFlags
    /\ CtrlReqs[3].ans = "InvalidInput"

\* ------------------------------------------------- claims on Device::close
\* C18: a Device::close step changes neither the Device, nor the owner count,
\* nor the handles held outside, nor the descriptor, starts no release and
\* reaches the kernel with nothing; the call made right after a close runs on
\* the open descriptor; and the kernel sees a close only once the Device and
\* every handle are dropped.
C18_CloseIsNoOp ==
    /\ [][Device_close =>
            /\ device' = "open"
            /\ strong' = strong
            /\ held' = held
            /\ releasing' = releasing
            /\ fd' = fd
            /\ kernel' = kernel
            /\ panicked' = panicked
            /\ call'.op = "close" /\ call'.reqs = << >>]_vars
    /\ [][(call.op = "close" /\ call'.op # "close")
            => /\ kernel'.open /\ kernel'.closeCalls = 0
               /\ \A i \in 1..Len(call'.reqs) :
                     call'.reqs[i].live /\ call'.reqs[i].fd = fd]_vars
    /\ [](kernel.closeCalls > 0 => (device = "dropped" /\ held = 0 /\ strong = 0))

\* C18 witness: close() has returned on a Device whose handle is also held
\* outside; both owners are still counted and the descriptor is open.
C18_Witness ==
    /\ call.op = "close"
    /\ call.result.kind = "Ok"
    /\ device = "open"
    /\ held = 1
    /\ strong = 2
    /\ fd >= 0
    /\ kernel.open
    /\ kernel.closeCalls = 0

\* C18 witness of the later operation: a read issued right after the close.
C18_LaterWitness ==
    /\ call.op = "close"
    /\ ENABLED (Device_read /\ call'.reqs[1].live)

\* -------------------------------------------- claims on the timeout of wait
\* C19: the timeout handed to poll by a wait(Some(t)) is never negative.
C19_FiniteTimeoutNeverNegative ==
    (call.op = "wait" /\ call.args[1].some) =>
        /\ call.reqs[1].arg >= 0
        /\ pc = "poll" => timeout >= 0

\* What holds of C19: the timeout handed to poll is t for every t below 2^31
\* (here Word \div 2), the values `as i32` leaves as they are.
C19_SmallTimeoutKept ==
    (call.op = "wait" /\ call.args[1].some /\ call.args[1].val < Word \div 2) =>
        call.reqs[1].arg = call.args[1].val

====
